---- MODULE Spec2Model ----
(***************************************************************************)
(* Password Generator (script.js): the unbiased sampler, the character and *)
(* passphrase generators with their consumption records, the entropy and   *)
(* crack-time arithmetic, the word-list loader and the click handlers.     *)
(*                                                                         *)
(* Text is a sequence of one-character strings.  A quantity log2(x) is     *)
(* kept exactly, as the vector of prime exponents of x (log2 of a product  *)
(* is the sum of the vectors), so two sums of logarithms are equal exactly *)
(* when the vectors are.  Decimal logarithms of the crack-time estimator   *)
(* are fixed-point numbers in units of 10^-6.                              *)
(***************************************************************************)
EXTENDS Integers, Sequences, FiniteSets, TLC

VARIABLES
    WORDLIST,        \* script.js:36  null until loadWordlist sets it
    loadPc,          \* position of the async loadWordlist
    respInFlight,    \* what the pending fetch / body read will deliver
    form,            \* the values of the form's inputs
    preBits,         \* preBitsEl / preCrackEl, as last written
    passwordOutput,  \* passwordOutput.value
    postBits,        \* postBitsEl / postCrackEl, as last written
    regenDisabled,   \* regenBtn.disabled
    lastGenerated,   \* script.js:478
    event,           \* the handler that ran last and how it ended
    smp,             \* one call of secureRandomInt, step by step
    crack,           \* two evaluations of formatCrackTimeFromBits
    gen              \* one call of a generator or of insertExtras

vars == <<WORDLIST, loadPc, respInFlight, form, preBits, passwordOutput, postBits,
          regenDisabled, lastGenerated, event, smp, crack, gen>>

\* null; a value that may be null is a record with the field null
Null == [null |-> TRUE]
Some(x) == [null |-> FALSE, val |-> x]

(***************************************************************************)
(* Bounds of the model.                                                    *)
(***************************************************************************)
\* Width of the random source in bits (the code draws a Uint32).
UintBits == 8
\* Largest argument secureRandomInt is called with in SpecSampler.
MaxSamplerArg == 12
\* At most this many draws of one generation take a value other than 0.
DrawBudget == 2

(***************************************************************************)
(* Characters                                                              *)
(***************************************************************************)
LowerChars == <<"a","b","c","d","e","f","g","h","i","j","k","l","m",
                "n","o","p","q","r","s","t","u","v","w","x","y","z">>
UpperChars == <<"A","B","C","D","E","F","G","H","I","J","K","L","M",
                "N","O","P","Q","R","S","T","U","V","W","X","Y","Z">>
DigitChars == <<"0","1","2","3","4","5","6","7","8","9">>
\* script.js:97
SYMBOLS == <<"!","@","#","$","%","^","&","*","(",")","-","_","=","+","[","]",
             "{","}",";",":",",",".","/","?","<",">","~">>

Range(s) == {s[i] : i \in DOMAIN s}
IndexOf(s, c) == CHOOSE i \in DOMAIN s : s[i] = c

\* /[a-zA-Z]/.test(ch)
IsLetter(ch) == ch \in Range(LowerChars) \cup Range(UpperChars)
\* /\s/ : the model's only whitespace character is the blank
IsSpace(ch) == ch = " "
ToUpperCase(ch) == IF ch \in Range(LowerChars) THEN UpperChars[IndexOf(LowerChars, ch)] ELSE ch
ToLowerCase(ch) == IF ch \in Range(UpperChars) THEN LowerChars[IndexOf(UpperChars, ch)] ELSE ch

\* script.js:81-92, each entry with the alternatives in the map's order
LEET_MAP(low) ==
    CASE low = "a" -> <<"4","@">>
      [] low = "b" -> <<"8">>
      [] low = "e" -> <<"3">>
      [] low = "g" -> <<"9">>
      [] low = "i" -> <<"1","!">>
      [] low = "l" -> <<"1","|">>
      [] low = "o" -> <<"0">>
      [] low = "s" -> <<"5","$">>
      [] low = "t" -> <<"7">>
      [] low = "z" -> <<"2">>
      [] OTHER -> <<>>

\* script.js:55-66, the embedded list as written (186 entries, some repeated)
FALLBACK_WORDLIST == <<
    <<"a","p","p","l","e">>, <<"a","n","c","h","o","r">>, <<"a","m","b","e","r">>,
    <<"a","t","l","a","s">>, <<"a","x","i","o","m">>, <<"b","e","a","c","o","n">>,
    <<"b","r","e","e","z","e">>, <<"b","r","i","s","k">>, <<"c","o","b","a","l","t">>,
    <<"c","o","p","p","e","r">>, <<"c","r","i","m","s","o","n">>, <<"c","r","e","s","t">>,
    <<"d","a","w","n">>, <<"d","e","l","t","a">>, <<"e","m","b","e","r">>, <<"e","c","h","o">>,
    <<"f","o","r","g","e">>, <<"f","a","b","l","e">>, <<"g","a","r","n","e","t">>,
    <<"g","l","a","d","e">>, <<"h","o","l","l","o","w">>, <<"h","a","r","b","o","r">>,
    <<"i","r","i","s">>, <<"i","v","o","r","y">>, <<"j","o","l","t">>, <<"j","a","d","e">>,
    <<"k","e","y","s","t","o","n","e">>, <<"k","i","s","m","e","t">>, <<"l","u","m","e","n">>,
    <<"l","u","n","a","r">>, <<"m","o","s","a","i","c">>, <<"m","a","t","r","i","x">>,
    <<"n","e","b","u","l","a">>, <<"n","a","t","i","v","e">>, <<"o","p","a","l">>,
    <<"o","r","a","c","l","e">>, <<"p","i","n","n","a","c","l","e">>,
    <<"p","i","o","n","e","e","r">>, <<"q","u","a","r","t","z">>, <<"q","u","i","e","t">>,
    <<"r","i","f","t">>, <<"r","a","n","g","e","r">>, <<"s","a","b","l","e">>,
    <<"s","o","l","a","r">>, <<"s","p","r","u","c","e">>, <<"t","i","t","a","n">>,
    <<"t","r","a","c","e","r">>, <<"u","m","b","r","a">>, <<"u","n","i","o","n">>,
    <<"v","a","p","o","r">>, <<"v","a","l","i","a","n","t">>, <<"w","o","v","e","n">>,
    <<"w","h","i","s","t","l","e">>, <<"x","e","n","o","n">>, <<"y","e","a","r","n">>,
    <<"y","o","n","d","e","r">>, <<"z","e","p","h","y","r">>, <<"z","e","n","i","t","h">>,
    <<"a","z","u","r","e">>, <<"c","r","e","s","t">>, <<"m","a","r","b","l","e">>,
    <<"c","a","n","y","o","n">>, <<"w","i","l","l","o","w">>, <<"o","r","c","h","i","d">>,
    <<"v","i","o","l","e","t">>, <<"s","a","g","e">>, <<"c","i","n","d","e","r">>,
    <<"f","l","i","n","t">>, <<"c","o","b","a","l","t">>, <<"s","a","f","f","r","o","n">>,
    <<"h","a","r","v","e","s","t">>, <<"m","e","a","d","o","w">>,
    <<"g","l","i","m","m","e","r">>, <<"f","u","s","i","o","n">>, <<"h","a","r","b","o","r">>,
    <<"l","e","g","e","n","d">>, <<"m","o","n","g","o","o","s","e">>, <<"p","o","p","p","y">>,
    <<"c","o","p","p","e","r">>, <<"t","h","r","i","v","e">>, <<"r","i","d","d","l","e">>,
    <<"c","o","b","a","l","t">>, <<"r","a","v","e","n">>, <<"d","u","n","e">>,
    <<"c","o","p","p","e","r">>, <<"s","t","r","i","d","e">>, <<"h","a","v","e","n">>,
    <<"e","m","b","e","r">>, <<"b","a","s","i","l">>, <<"c","a","s","c","a","d","e">>,
    <<"d","a","p","p","e","r">>, <<"e","v","o","l","v","e">>, <<"f","r","a","n","k">>,
    <<"g","r","o","v","e">>, <<"h","a","v","e","n">>, <<"i","g","n","i","t","e">>,
    <<"j","u","n","o">>, <<"l","a","t","c","h">>, <<"m","i","r","t","h">>,
    <<"n","i","m","b","u","s">>, <<"o","p","a","l">>, <<"p","r","i","s","m">>,
    <<"q","u","e","s","t">>, <<"r","i","p","p","l","e">>, <<"s","a","b","l","e">>,
    <<"t","e","r","r","a">>, <<"u","p","l","i","f","t">>, <<"v","e","r","v","e">>,
    <<"w","i","s","p">>, <<"y","a","r","r","o","w">>, <<"z","e","a","l">>,
    <<"a","r","c","a","d","e">>, <<"b","r","a","v","o">>, <<"c","a","p","e","r">>,
    <<"d","r","i","f","t">>, <<"e","l","i","x","i","r">>, <<"f","l","u","t","e">>,
    <<"g","a","l","e">>, <<"h","a","l","t">>, <<"i","o","n">>, <<"j","e","w","e","l">>,
    <<"k","n","a","c","k">>, <<"l","o","d","g","e">>, <<"m","u","s","e">>, <<"n","o","i","r">>,
    <<"o","p","a","l">>, <<"p","a","r","a","g","o","n">>, <<"q","u","i","e","t","u","s">>,
    <<"r","e","s","i","n">>, <<"s","p","r","o","u","t">>, <<"t","a","n","g","o">>,
    <<"u","n","d","e","r","t","o","w">>, <<"v","i","v","i","d">>, <<"w","a","x">>,
    <<"y","a","c","h","t">>, <<"z","e","s","t">>, <<"b","l","o","o","m">>,
    <<"c","i","t","r","i","n","e">>, <<"d","o","c","k">>, <<"e","m","b","e","r">>,
    <<"f","l","a","r","e">>, <<"g","r","o","t","t","o">>, <<"h","a","r","b","o","r">>,
    <<"i","s","l","e">>, <<"j","o","l","t">>, <<"k","a","l","e">>, <<"l","a","g","o","o","n">>,
    <<"m","a","n","t","l","e">>, <<"n","i","c","h","e">>, <<"o","a","t","h">>,
    <<"p","i","x","e","l">>, <<"q","u","i","l","l">>, <<"r","o","v","e","r">>,
    <<"s","o","l","a","c","e">>, <<"t","h","i","m","b","l","e">>, <<"u","m","b","e","l">>,
    <<"v","i","g","i","l">>, <<"w","a","l","t","z">>, <<"x","e","r","o","x">>,
    <<"y","o","d","e","l">>, <<"z","e","p","p","e","l","i","n">>, <<"a","p","e","x">>,
    <<"b","r","o","o","k">>, <<"c","r","e","s","t">>, <<"d","e","l","t","a">>, <<"e","o","n">>,
    <<"f","o","r","g","e">>, <<"g","l","i","s","t","e","n">>, <<"h","u","s","h">>,
    <<"i","r","i","s">>, <<"j","a","d","e">>, <<"k","o","i">>, <<"l","o","r","e">>,
    <<"m","a","z","e">>, <<"n","e","s","t">>, <<"o","l","i","v","e">>, <<"p","e","a","k">>,
    <<"q","u","i","p">>, <<"r","u","s","h">>, <<"s","p","r","i","g">>, <<"t","h","a","w">>,
    <<"u","l","t","r","a">>, <<"v","o","r","t","e","x">>, <<"w","a","n","e">>,
    <<"y","e","a","r","n">>, <<"z","e","n">>
    >>

RECURSIVE Pow(_, _)
Pow(b, e) == IF e = 0 THEN 1 ELSE b * Pow(b, e - 1)

Min(a, b) == IF a <= b THEN a ELSE b
Max(a, b) == IF a >= b THEN a ELSE b
\* Math.ceil(a / b) for a >= 0, b > 0
CeilDiv(a, b) == (a + b - 1) \div b

(***************************************************************************)
(* Secure RNG, script.js:14-33                                             *)
(***************************************************************************)
\* 0xFFFFFFFF at the model's width: the largest value of the source
MaxUint == Pow(2, UintBits) - 1
\* the number of values of the source
RangeSize == Pow(2, UintBits)

\* a threshold that rejects nothing
ThresholdNoReject(maxExclusive) == MaxUint + 1
\* script.js:24
Threshold(maxExclusive) == MaxUint - (MaxUint % maxExclusive)

\* script.js:27: the raw value is returned (reduced) or drawn again
Accepts(maxExclusive, r) == r < Threshold(maxExclusive)

\* the values secureRandomInt(n) can return, for every n the source can serve
OutcomeTable ==
    [n \in 1..MaxUint |-> {r % n : r \in {x \in 0..MaxUint : Accepts(n, x)}}]
SecureRandomIntOutcomes(maxExclusive) == OutcomeTable[maxExclusive]

SmpIdle == [pc |-> "idle", n |-> 0, drawn |-> FALSE, r |-> 0, result |-> -1]

\* script.js:21-24: the call; a non-positive argument throws
SecureRandomIntCall(n) ==
    /\ smp.pc = "idle"
    /\ smp' = IF n <= 0
              THEN [SmpIdle EXCEPT !.pc = "threw", !.n = n]
              ELSE [SmpIdle EXCEPT !.pc = "loop", !.n = n]

\* script.js:25-28: one turn of the loop, with the raw value r
SecureRandomIntDraw(r) ==
    /\ smp.pc = "loop"
    /\ smp' = IF Accepts(smp.n, r)
              THEN [smp EXCEPT !.pc = "returned", !.drawn = TRUE, !.r = r,
                               !.result = r % smp.n]
              ELSE [smp EXCEPT !.drawn = TRUE, !.r = r]

\* the caller takes the result (or the exception); the next call can start
SecureRandomIntDone ==
    /\ smp.pc \in {"returned", "threw"}
    /\ smp' = SmpIdle

(***************************************************************************)
(* Logarithms.  log2(x) of a positive rational x is the vector of x's      *)
(* prime exponents; -Infinity is a value of its own.                       *)
(***************************************************************************)
\* Every number whose logarithm the model takes factors over the primes
\* up to MaxFactor.
MaxFactor == 200
Primes == {p \in 2..MaxFactor : \A d \in 2..(p - 1) : p % d # 0}

RECURSIVE ExpOf(_, _)
ExpOf(p, n) == IF n % p = 0 THEN 1 + ExpOf(p, n \div p) ELSE 0

\* a logarithm: -Infinity, or the exponents e
LogZero == [inf |-> FALSE, e |-> [p \in Primes |-> 0]]
NegInfinity == [inf |-> TRUE, e |-> LogZero.e]
\* Math.log2(n), n >= 1
Log2(n) == [inf |-> FALSE, e |-> [p \in Primes |-> ExpOf(p, n)]]
LogAdd(a, b) ==
    IF a.inf \/ b.inf THEN NegInfinity
    ELSE [inf |-> FALSE, e |-> [p \in Primes |-> a.e[p] + b.e[p]]]
\* log2(x / y) from log2(x) and log2(y), both finite
LogSub(a, b) == [inf |-> FALSE, e |-> [p \in Primes |-> a.e[p] - b.e[p]]]
\* k * a for an integer k >= 0 and a finite
LogTimes(k, a) == [inf |-> FALSE, e |-> [p \in Primes |-> k * a.e[p]]]

\* Math.log2(p) and Math.log10(p) of a prime, in units of 10^-6
LOG2_MICRO(p) ==
    CASE p = 2 -> 1000000
      [] p = 3 -> 1584963
      [] p = 5 -> 2321928
      [] p = 7 -> 2807355
      [] p = 11 -> 3459432
      [] p = 13 -> 3700440
      [] p = 17 -> 4087463
      [] p = 19 -> 4247928
      [] p = 23 -> 4523562
      [] p = 29 -> 4857981
      [] p = 31 -> 4954196
      [] p = 37 -> 5209453
      [] p = 41 -> 5357552
      [] p = 43 -> 5426265
      [] p = 47 -> 5554589
      [] p = 53 -> 5727920
      [] p = 59 -> 5882643
      [] p = 61 -> 5930737
      [] p = 67 -> 6066089
      [] p = 71 -> 6149747
      [] p = 73 -> 6189825
      [] p = 79 -> 6303781
      [] p = 83 -> 6375039
      [] p = 89 -> 6475733
      [] p = 97 -> 6599913
      [] p = 101 -> 6658211
      [] p = 103 -> 6686501
      [] p = 107 -> 6741467
      [] p = 109 -> 6768184
      [] p = 113 -> 6820179
      [] p = 127 -> 6988685
      [] p = 131 -> 7033423
      [] p = 137 -> 7098032
      [] p = 139 -> 7118941
      [] p = 149 -> 7219169
      [] p = 151 -> 7238405
      [] p = 157 -> 7294621
      [] p = 163 -> 7348728
      [] p = 167 -> 7383704
      [] p = 173 -> 7434628
      [] p = 179 -> 7483816
      [] p = 181 -> 7499846
      [] p = 191 -> 7577429
      [] p = 193 -> 7592457
      [] p = 197 -> 7622052
      [] p = 199 -> 7636625
LOG10_MICRO(p) ==
    CASE p = 2 -> 301030
      [] p = 3 -> 477121
      [] p = 5 -> 698970
      [] p = 7 -> 845098
      [] p = 11 -> 1041393
      [] p = 13 -> 1113943
      [] p = 17 -> 1230449
      [] p = 19 -> 1278754
      [] p = 23 -> 1361728
      [] p = 29 -> 1462398
      [] p = 31 -> 1491362
      [] p = 37 -> 1568202
      [] p = 41 -> 1612784
      [] p = 43 -> 1633468
      [] p = 47 -> 1672098
      [] p = 53 -> 1724276
      [] p = 59 -> 1770852
      [] p = 61 -> 1785330
      [] p = 67 -> 1826075
      [] p = 71 -> 1851258
      [] p = 73 -> 1863323
      [] p = 79 -> 1897627
      [] p = 83 -> 1919078
      [] p = 89 -> 1949390
      [] p = 97 -> 1986772
      [] p = 101 -> 2004321
      [] p = 103 -> 2012837
      [] p = 107 -> 2029384
      [] p = 109 -> 2037426
      [] p = 113 -> 2053078
      [] p = 127 -> 2103804
      [] p = 131 -> 2117271
      [] p = 137 -> 2136721
      [] p = 139 -> 2143015
      [] p = 149 -> 2173186
      [] p = 151 -> 2178977
      [] p = 157 -> 2195900
      [] p = 163 -> 2212188
      [] p = 167 -> 2222716
      [] p = 173 -> 2238046
      [] p = 179 -> 2252853
      [] p = 181 -> 2257679
      [] p = 191 -> 2281033
      [] p = 193 -> 2285557
      [] p = 197 -> 2294466
      [] p = 199 -> 2298853

RECURSIVE SumOver(_, _, _)
SumOver(S, e, t) ==
    IF S = {} THEN 0
    ELSE LET p == CHOOSE q \in S : TRUE
         IN  e[p] * t[p] + SumOver(S \ {p}, e, t)

\* the number a finite logarithm stands for, base 2 and base 10, in units of 10^-6
BitsMicro(a) ==
    SumOver({p \in Primes : a.e[p] # 0}, a.e, [p \in Primes |-> LOG2_MICRO(p)])
Log10Micro(a) ==
    SumOver({p \in Primes : a.e[p] # 0}, a.e, [p \in Primes |-> LOG10_MICRO(p)])

\* x.toFixed(2) of a number given in units of 10^-6: hundredths, rounded
ToFixed2(micro) ==
    IF micro >= 0 THEN (micro + 5000) \div 10000
    ELSE -((5000 - micro) \div 10000)

\* script.js:172-180
RECURSIVE Log2nCrSum(_, _, _)
Log2nCrSum(n, k, i) ==
    IF i > k THEN LogZero
    ELSE LogAdd(LogSub(Log2(n - k + i), Log2(i)), Log2nCrSum(n, k, i + 1))

\* log2_nCr whose range test takes k = n for out of range
log2_nCrRangeInclusive(n, k) ==
    IF k < 0 \/ k >= n THEN NegInfinity
    ELSE Log2nCrSum(n, Min(k, n - k), 1)

log2_nCr(n, k) ==
    IF k < 0 \/ k > n THEN NegInfinity
    ELSE Log2nCrSum(n, Min(k, n - k), 1)

(***************************************************************************)
(* Random draws of a generation.  A generator is the set of its outcomes   *)
(* over the draws' values; every outcome carries the draws it made, in     *)
(* order: the stage, what was drawn, the range n and the value v.          *)
(***************************************************************************)
D(stage, what, n, v) == [stage |-> stage, what |-> what, n |-> n, v |-> v]

\* the values explored for one call secureRandomInt(n): the first and the last
DrawChoices(n) == {v \in SecureRandomIntOutcomes(n) : v = 0 \/ v = n - 1}
\* ... with b draws other than 0 still allowed
DrawsWith(n, b) == IF b = 0 THEN DrawChoices(n) \cap {0} ELSE DrawChoices(n)
Left(b, v) == IF v = 0 THEN b ELSE b - 1
\* script.js:22: a call with maxExclusive <= 0 throws; it is logged with its n
Threw(draws) == \E i \in DOMAIN draws : draws[i].n <= 0
\* the arguments of the calls of secureRandomInt of a log
Ranges(draws) == {draws[i].n : i \in DOMAIN draws}

(***************************************************************************)
(* Entropy, script.js:188-236                                              *)
(***************************************************************************)
\* script.js:188-195
charPoolSize(opts) ==
    (IF opts.lower THEN 26 ELSE 0) + (IF opts.upper THEN 26 ELSE 0)
    + (IF opts.digits THEN 10 ELSE 0) + (IF opts.symbols THEN Len(SYMBOLS) ELSE 0)

\* script.js:197-200
bitsForCharacterMode(length, poolSize) ==
    IF poolSize <= 0 THEN LogZero ELSE LogTimes(length, Log2(poolSize))

RECURSIVE SumLog2(_)
SumLog2(ns) == IF ns = <<>> THEN LogZero ELSE LogAdd(Log2(Head(ns)), SumLog2(Tail(ns)))

\* script.js:204-236
bitsForPassphraseModel(numWords, wordlistSize, transforms) ==
    LET base == LogTimes(numWords, Log2(wordlistSize))
        cap == IF transforms.capitalisation /\ transforms.lettersCount # 0
               THEN LogTimes(transforms.lettersCount, Log2(2)) ELSE LogZero
        leet == IF transforms.leet /\ Len(transforms.leetChoices) # 0
                THEN SumLog2(transforms.leetChoices) ELSE LogZero
        ins == IF ~transforms.insertions.null /\ transforms.insertions.val.count # 0
               THEN LET k == transforms.insertions.val.count
                        choiceSize == transforms.insertions.val.choiceSize
                    IN  LogAdd(LogTimes(k, Log2(choiceSize)),
                               log2_nCr(transforms.baseLen + k, k))
               ELSE LogZero
    IN  LogAdd(LogAdd(LogAdd(base, cap), leet), ins)

(***************************************************************************)
(* Character passwords, script.js:283-299                                  *)
(***************************************************************************)
\* script.js:284-288
\* a pool whose uppercase flag adds the lowercase letters again
CharPoolUpperAsLower(poolCfg) ==
    (IF poolCfg.lower THEN LowerChars ELSE <<>>)
    \o (IF poolCfg.upper THEN LowerChars ELSE <<>>)
    \o (IF poolCfg.digits THEN DigitChars ELSE <<>>)
    \o (IF poolCfg.symbols THEN SYMBOLS ELSE <<>>)
\* script.js:284-288
CharPool(poolCfg) ==
    (IF poolCfg.lower THEN LowerChars ELSE <<>>)
    \o (IF poolCfg.upper THEN UpperChars ELSE <<>>)
    \o (IF poolCfg.digits THEN DigitChars ELSE <<>>)
    \o (IF poolCfg.symbols THEN SYMBOLS ELSE <<>>)

\* script.js:291-294
RECURSIVE CharLoop(_, _, _, _)
CharLoop(pool, i, length, b) ==
    IF i >= length THEN {[text |-> <<>>, draws |-> <<>>, left |-> b]}
    ELSE IF Len(pool) = 0
    THEN \* secureChoice of an empty array: secureRandomInt(0) throws
         {[text |-> <<>>, draws |-> <<D("char", "char", 0, 0)>>, left |-> b]}
    ELSE UNION {
        {[text |-> <<pool[v + 1]>> \o rest.text,
          draws |-> <<D("char", "char", Len(pool), v)>> \o rest.draws,
          left |-> rest.left] : rest \in CharLoop(pool, i + 1, length, Left(b, v))}
        : v \in DrawsWith(Len(pool), b)}

EmptyObject == [x \in {} |-> x]

\* generateCharacterPassword without the return for an empty pool
generateCharacterPasswordNoEmptyReturn(length, poolCfg, b) ==
    LET pool == CharPool(poolCfg)
    IN  {[res |-> [password |-> o.text,
                   bits |-> bitsForCharacterMode(length, Len(pool)),
                   transforms |-> [poolSize |-> Len(pool), length |-> length]],
          draws |-> o.draws, stages |-> <<>>] : o \in CharLoop(pool, 0, length, b)}

\* script.js:283-299; the result for an empty pool has no bits
generateCharacterPassword(length, poolCfg, b) ==
    LET pool == CharPool(poolCfg)
    IN  IF Len(pool) = 0
        THEN {[res |-> [password |-> <<>>, transforms |-> EmptyObject],
               draws |-> <<>>, stages |-> <<>>]}
        ELSE {[res |-> [password |-> o.text,
                        bits |-> bitsForCharacterMode(length, Len(pool)),
                        transforms |-> [poolSize |-> Len(pool), length |-> length]],
               draws |-> o.draws, stages |-> <<>>] : o \in CharLoop(pool, 0, length, b)}

(***************************************************************************)
(* Passphrase transforms, script.js:301-355                                *)
(***************************************************************************)
\* script.js:301-313
RECURSIVE randomizeCapitalization(_, _)
randomizeCapitalization(text, b) ==
    IF text = <<>> THEN {[text |-> <<>>, lettersCount |-> 0, draws |-> <<>>, left |-> b]}
    ELSE LET ch == Head(text)
         IN  IF IsLetter(ch)
             THEN UNION {
                 {[text |-> <<IF v = 1 THEN ToUpperCase(ch) ELSE ToLowerCase(ch)>> \o rest.text,
                   lettersCount |-> 1 + rest.lettersCount,
                   draws |-> <<D("cap", "coin", 2, v)>> \o rest.draws,
                   left |-> rest.left]
                  : rest \in randomizeCapitalization(Tail(text), Left(b, v))}
                 : v \in DrawsWith(2, b)}
             ELSE {[rest EXCEPT !.text = <<ch>> \o @]
                   : rest \in randomizeCapitalization(Tail(text), b)}

\* script.js:315-332
RECURSIVE applyLeet(_, _)
applyLeet(text, b) ==
    IF text = <<>> THEN {[text |-> <<>>, choices |-> <<>>, draws |-> <<>>, left |-> b]}
    ELSE LET ch == Head(text)
             low == ToLowerCase(ch)
             opts == <<ch>> \o LEET_MAP(low)
         IN  IF LEET_MAP(low) # <<>>
             THEN UNION {
                 {[text |-> <<opts[v + 1]>> \o rest.text,
                   choices |-> <<Len(opts)>> \o rest.choices,
                   draws |-> <<D("leet", "pick", Len(opts), v)>> \o rest.draws,
                   left |-> rest.left]
                  : rest \in applyLeet(Tail(text), Left(b, v))}
                 : v \in DrawsWith(Len(opts), b)}
             ELSE {[rest EXCEPT !.text = <<ch>> \o @] : rest \in applyLeet(Tail(text), b)}

\* script.js:341-345: the values to insert
RECURSIVE InsertValues(_, _, _, _)
InsertValues(i, count, opts, b) ==
    IF i >= count THEN {[inserts |-> <<>>, draws |-> <<>>, left |-> b]}
    ELSE LET types == IF opts.symbols /\ opts.digits
                      THEN {[pickType |-> v, d |-> <<D("insert", "type", 2, v)>>,
                             left |-> Left(b, v)] : v \in DrawsWith(2, b)}
                      ELSE {[pickType |-> IF opts.symbols THEN 1 ELSE 0, d |-> <<>>,
                             left |-> b]}
             Value(t) == IF t.pickType = 1
                         THEN {[ch |-> SYMBOLS[v + 1],
                                d |-> t.d \o <<D("insert", "value", Len(SYMBOLS), v)>>,
                                left |-> Left(t.left, v)]
                               : v \in DrawsWith(Len(SYMBOLS), t.left)}
                         ELSE {[ch |-> DigitChars[v + 1],
                                d |-> t.d \o <<D("insert", "value", 10, v)>>,
                                left |-> Left(t.left, v)]
                               : v \in DrawsWith(10, t.left)}
         IN  UNION {UNION {
                 {[inserts |-> <<c.ch>> \o rest.inserts, draws |-> c.d \o rest.draws,
                   left |-> rest.left] : rest \in InsertValues(i + 1, count, opts, c.left)}
                 : c \in Value(t)} : t \in types}

\* arr.splice(pos, 0, x)
\* a splice that overwrites the element at pos instead of inserting before it
SpliceOverwrite(arr, pos, x) ==
    SubSeq(arr, 1, pos) \o <<x>> \o SubSeq(arr, pos + 2, Len(arr))
Splice(arr, pos, x) == SubSeq(arr, 1, pos) \o <<x>> \o SubSeq(arr, pos + 1, Len(arr))

\* script.js:347-351: each value goes to a position drawn among the current slots
RECURSIVE InsertPositions(_, _, _)
InsertPositions(arr, inserts, b) ==
    IF inserts = <<>> THEN {[arr |-> arr, draws |-> <<>>, left |-> b]}
    ELSE UNION {
        {[rest EXCEPT !.draws = <<D("insert", "pos", Len(arr) + 1, pos)>> \o @]
         : rest \in InsertPositions(Splice(arr, pos, Head(inserts)), Tail(inserts),
                                    Left(b, pos))}
        : pos \in DrawsWith(Len(arr) + 1, b)}

\* script.js:334-355
insertExtras(text, opts, b) ==
    LET baseLen == Len(text)
        maxInsert == Min(4, Max(1, CeilDiv(baseLen, 6)))
        choiceSize == IF opts.symbols /\ opts.digits THEN Len(SYMBOLS) + 10
                      ELSE IF opts.symbols THEN Len(SYMBOLS) ELSE 10
    IN  UNION {UNION {
            {[text |-> p.arr, count |-> Len(vs.inserts), choiceSize |-> choiceSize,
              baseLen |-> baseLen,
              draws |-> <<D("insert", "count", maxInsert, c)>> \o vs.draws \o p.draws,
              left |-> p.left] : p \in InsertPositions(text, vs.inserts, vs.left)}
            : vs \in InsertValues(0, 1 + c, opts, Left(b, c))}
        : c \in DrawsWith(maxInsert, b)}

(***************************************************************************)
(* generatePassphrase, script.js:357-407                                   *)
(***************************************************************************)
NotSpace(ch) == ~IsSpace(ch)
MapLower(s) == [i \in DOMAIN s |-> ToLowerCase(s[i])]

\* script.js:366-367: opts.personal.replace(/\s+/g, '').slice(0, 12), lower-cased
NormalizeHint(personal) ==
    LET p == SelectSeq(personal, NotSpace)
    IN  MapLower(SubSeq(p, 1, Min(12, Len(p))))

\* script.js:362-371
RECURSIVE SelectWords(_, _, _, _)
SelectWords(opts, wl, i, b) ==
    IF i >= opts.numWords THEN {[words |-> <<>>, draws |-> <<>>, left |-> b]}
    ELSE LET hints == IF Len(opts.personal) > 1
                      THEN {[hint |-> (v = 0), d |-> <<D("select", "hint", 5, v)>>,
                             left |-> Left(b, v)] : v \in DrawsWith(5, b)}
                      ELSE {[hint |-> FALSE, d |-> <<>>, left |-> b]}
             Word(h) == IF h.hint
                        THEN {[w |-> NormalizeHint(opts.personal), d |-> h.d,
                               left |-> h.left]}
                        ELSE IF Len(wl) = 0
                        THEN \* secureChoice of an empty list throws
                             {[w |-> <<>>, d |-> h.d \o <<D("select", "word", 0, 0)>>,
                               left |-> h.left]}
                        ELSE {[w |-> wl[v + 1],
                               d |-> h.d \o <<D("select", "word", Len(wl), v)>>,
                               left |-> Left(h.left, v)] : v \in DrawsWith(Len(wl), h.left)}
         IN  UNION {UNION {
                 IF Threw(c.d)
                 THEN {[words |-> <<>>, draws |-> c.d, left |-> c.left]}
                 ELSE {[words |-> <<c.w>> \o rest.words, draws |-> c.d \o rest.draws,
                        left |-> rest.left]
                       : rest \in SelectWords(opts, wl, i + 1, c.left)}
                 : c \in Word(h)} : h \in hints}

\* wordChoices.join(separator)
RECURSIVE Join(_, _)
Join(ws, sep) ==
    IF ws = <<>> THEN <<>>
    ELSE IF Len(ws) = 1 THEN ws[1]
    ELSE ws[1] \o sep \o Join(Tail(ws), sep)

\* A generation under way: the text and the record so far, the draws made,
\* and the stages run, each with the text it was given and the text it gave.
\* script.js:358-377: the words, joined, and the record before any transform
StageSelect(opts, wl, b) ==
    {[password |-> Join(s.words, opts.separator),
      words |-> s.words,
      transforms |-> [capitalisation |-> FALSE, lettersCount |-> 0, leet |-> FALSE,
                      leetChoices |-> <<>>, insertions |-> Null,
                      baseLen |-> Len(Join(s.words, opts.separator))],
      draws |-> s.draws,
      stages |-> <<[stage |-> "select", in |-> <<>>,
                    out |-> Join(s.words, opts.separator)]>>,
      left |-> s.left] : s \in SelectWords(opts, wl, 0, b)}

\* a capitalisation stage that runs whether or not it is enabled
StageCapAlways(opts, st) ==
    {[st EXCEPT !.password = r.text,
                !.transforms.capitalisation = TRUE,
                !.transforms.lettersCount = r.lettersCount,
                !.draws = @ \o r.draws,
                !.stages = Append(@, [stage |-> "cap", in |-> st.password,
                                      out |-> r.text]),
                !.left = r.left] : r \in randomizeCapitalization(st.password, st.left)}
\* script.js:380-385
StageCap(opts, st) ==
    IF opts.enableCap
    THEN {[st EXCEPT !.password = r.text,
                     !.transforms.capitalisation = TRUE,
                     !.transforms.lettersCount = r.lettersCount,
                     !.draws = @ \o r.draws,
                     !.stages = Append(@, [stage |-> "cap", in |-> st.password,
                                           out |-> r.text]),
                     !.left = r.left] : r \in randomizeCapitalization(st.password, st.left)}
    ELSE {st}

\* script.js:388-393
StageLeet(opts, st) ==
    IF opts.enableLeet
    THEN {[st EXCEPT !.password = r.text,
                     !.transforms.leet = TRUE,
                     !.transforms.leetChoices = r.choices,
                     !.draws = @ \o r.draws,
                     !.stages = Append(@, [stage |-> "leet", in |-> st.password,
                                           out |-> r.text]),
                     !.left = r.left] : r \in applyLeet(st.password, st.left)}
    ELSE {st}

\* script.js:396-401
StageInsert(opts, st) ==
    IF opts.enableInsertExtras
    THEN {[st EXCEPT !.password = r.text,
                     !.transforms.insertions =
                         Some([count |-> r.count, choiceSize |-> r.choiceSize]),
                     !.transforms.baseLen = r.baseLen,
                     !.draws = @ \o r.draws,
                     !.stages = Append(@, [stage |-> "insert", in |-> st.password,
                                           out |-> r.text]),
                     !.left = r.left]
          : r \in insertExtras(st.password, [digits |-> TRUE, symbols |-> TRUE], st.left)}
    ELSE {st}

\* script.js:357-407, for a word list that is not null
generatePassphrase(opts, wl, b) ==
    LET s1 == StageSelect(opts, wl, b)
        \* an exception ends the function: no stage runs after it
        s2 == UNION {IF Threw(st.draws) THEN {st} ELSE StageCap(opts, st) : st \in s1}
        s3 == UNION {IF Threw(st.draws) THEN {st} ELSE StageLeet(opts, st) : st \in s2}
        s4 == UNION {IF Threw(st.draws) THEN {st} ELSE StageInsert(opts, st) : st \in s3}
    IN  {[res |-> [password |-> st.password,
                   bits |-> bitsForPassphraseModel(opts.numWords, Len(wl), st.transforms),
                   transforms |-> st.transforms,
                   words |-> st.words],
          draws |-> st.draws, stages |-> st.stages] : st \in s4}

(***************************************************************************)
(* The generators as functions of their arguments (SpecGen)                *)
(***************************************************************************)
\* Lengths 0..MaxCharLength of a character password.
MaxCharLength == 3
\* the numbers of words of a passphrase (the form clamps numWords to 2..8)
NumWordsChoices == {2, 3}
\* insertExtras on texts of 0..MaxBaseLen characters.
MaxBaseLen == 25

\* a word list a fetch can deliver: ten short words
FETCHED_WORDLIST == << <<"a","t">>, <<"b","e">>, <<"g","o">>, <<"i","t">>, <<"o","x">>,
                       <<"s","o">>, <<"u","p">>, <<"w","e">>, <<"l","a","b">>,
                       <<"z","i","p">> >>

PoolCfgs == [lower : BOOLEAN, upper : BOOLEAN, digits : BOOLEAN, symbols : BOOLEAN]
Separators == {<<>>, <<"-">>}
Personals == {<<>>, <<"J","o"," ","e">>}
PassOpts == [numWords : NumWordsChoices, separator : Separators, personal : Personals,
             enableCap : BOOLEAN, enableLeet : BOOLEAN, enableInsertExtras : BOOLEAN]
WordLists == {FALLBACK_WORDLIST, FETCHED_WORDLIST}
ExtrasOpts == [digits : BOOLEAN, symbols : BOOLEAN]
XText(n) == [i \in 1..n |-> "x"]

GenIdle == [pc |-> "idle"]

\* generateCharacterPassword(length, poolCfg)
GenCharacter(length, poolCfg) ==
    /\ gen.pc = "idle"
    /\ \E o \in generateCharacterPassword(length, poolCfg, DrawBudget) :
         gen' = [pc |-> "char", length |-> length, poolCfg |-> poolCfg, out |-> o]

\* generatePassphrase(opts) with WORDLIST = wl
GenPassphrase(opts, wl) ==
    /\ gen.pc = "idle"
    /\ \E o \in generatePassphrase(opts, wl, DrawBudget) :
         gen' = [pc |-> "pass", opts |-> opts, wl |-> wl, out |-> o]

\* every generatePassphrase(opts) with WORDLIST = wl: how many outcomes there
\* are, and how many sequences of draws lead to them
GenPassphraseAll(opts, wl) ==
    /\ gen.pc = "idle"
    /\ LET all == generatePassphrase(opts, wl, DrawBudget)
       IN  gen' = [pc |-> "all", opts |-> opts, wl |-> wl,
                   outcomes |-> Cardinality({[res |-> o.res, draws |-> o.draws] : o \in all}),
                   drawSeqs |-> Cardinality({o.draws : o \in all})]

\* log2_nCr(n, k), called with the arguments waiting in gen
MaxBinomN == 30
BinomInputs == {[pc |-> "args", n |-> n, k |-> k] : n \in 0..MaxBinomN, k \in (0 - 2)..(MaxBinomN + 2)}
GenLog2nCr ==
    /\ gen.pc = "args"
    /\ gen' = [pc |-> "nCr", n |-> gen.n, k |-> gen.k, out |-> log2_nCr(gen.n, gen.k)]

\* insertExtras(text, opts)
GenInsertExtras(text, opts) ==
    /\ gen.pc = "idle"
    /\ \E o \in insertExtras(text, opts, DrawBudget) :
         gen' = [pc |-> "insert", text |-> text, opts |-> opts, out |-> o]

(***************************************************************************)
(* Crack time, script.js:240-277.  guessesPerSec is a power of ten and is  *)
(* given by its exponent; a number of seconds, and the number a label      *)
(* shows, is given by its decimal logarithm in units of 10^-6.             *)
(***************************************************************************)
\* Math.log10(SECS_PER_YEAR), SECS_PER_YEAR = 31557600, in units of 10^-6
Log10SecsPerYear == 7499104
\* the unit of the fixed-point logarithms
Micro == Pow(10, 6)

\* Math.log10(n) in units of 10^-6, for n a product of primes up to MaxFactor
Log10Of(n) == Log10Micro(Log2(n))

SecondsZero == [kind |-> "zero", log10 |-> 0]
SecondsNull == [kind |-> "null", log10 |-> 0]
\* Math.pow(10, x)
SecondsPow10(x) == [kind |-> "number", log10 |-> x]

\* script.js:255-269 with the test of days widened to days < 10
CrackLabelDaysBelowTen(log10Seconds, log10Years) ==
    IF log10Years < Log10Of(60)
    THEN IF log10Seconds - Log10Of(86400) < Micro
         THEN IF log10Seconds - Log10Of(3600) < 0
              THEN [unit |-> "minutes", log10 |-> log10Seconds - Log10Of(60)]
              ELSE [unit |-> "hours", log10 |-> log10Seconds - Log10Of(3600)]
         ELSE [unit |-> "days", log10 |-> log10Seconds - Log10Of(86400)]
    ELSE [unit |-> "years", log10 |-> log10Years]

\* script.js:255-269 with the test of years turned round
CrackLabelYearsFlipped(log10Seconds, log10Years) ==
    IF log10Years >= Log10Of(60)
    THEN IF log10Seconds - Log10Of(86400) < 0
         THEN IF log10Seconds - Log10Of(3600) < 0
              THEN [unit |-> "minutes", log10 |-> log10Seconds - Log10Of(60)]
              ELSE [unit |-> "hours", log10 |-> log10Seconds - Log10Of(3600)]
         ELSE [unit |-> "days", log10 |-> log10Seconds - Log10Of(86400)]
    ELSE [unit |-> "years", log10 |-> log10Years]

\* script.js:255-269: the label below 10^6 years; x < 1 is log10(x) < 0
CrackLabel(log10Seconds, log10Years) ==
    IF log10Years < Log10Of(60)
    THEN IF log10Seconds - Log10Of(86400) < 0
         THEN IF log10Seconds - Log10Of(3600) < 0
              THEN [unit |-> "minutes", log10 |-> log10Seconds - Log10Of(60)]
              ELSE [unit |-> "hours", log10 |-> log10Seconds - Log10Of(3600)]
         ELSE [unit |-> "days", log10 |-> log10Seconds - Log10Of(86400)]
    ELSE [unit |-> "years", log10 |-> log10Years]

\* script.js:240-277; bits is a logarithm, guessExp the exponent of guessesPerSec
formatCrackTimeFromBits(bits, guessExp) ==
    IF bits.inf \/ BitsMicro(bits) <= 0
    THEN [label |-> [unit |-> "<1 second", log10 |-> 0], seconds |-> SecondsZero]
    ELSE LET log10Guesses == Log10Micro(bits)
             log10Seconds == log10Guesses - guessExp * Micro
             log10Years == log10Seconds - Log10SecsPerYear
         IN  IF log10Seconds < 0
             THEN [label |-> [unit |-> "<1 second", log10 |-> 0],
                   seconds |-> SecondsPow10(log10Seconds)]
             ELSE IF log10Years < 6 * Micro
             THEN [label |-> CrackLabel(log10Seconds, log10Years),
                   seconds |-> SecondsPow10(log10Seconds)]
             ELSE \* mantissa and exponent of the years, both from the logarithm
                  [label |-> [unit |-> "scientific", log10 |-> log10Years,
                              exponentYears |-> log10Years \div Micro,
                              mantissaLog10 |-> log10Years % Micro],
                   seconds |-> SecondsNull]

\* Bit counts -1..MaxCrackBits of SpecCrack.
MaxCrackBits == 90
\* guessesPerSec of SpecCrack: 1, 1000 and the form's default 1e10
GuessExps == {0, 3, 10}
\* the logarithm that is the number b of bits: log2(2^b)
BitsOf(b) == LogTimes(b, Log2(2))

\* formatCrackTimeFromBits(b, 10^g) for the bit counts and rates of SpecCrack
CrackTimes ==
    [g \in GuessExps |->
        [b \in -1..MaxCrackBits |-> formatCrackTimeFromBits(BitsOf(b), g)]]

\* formatCrackTimeFromBits(b1, g) and formatCrackTimeFromBits(b2, g), b1 <= b2
FormatCrackTimes(g, b1, b2) ==
    /\ crack.pc = "idle"
    /\ crack' = [pc |-> "done", g |-> g, b1 |-> b1, b2 |-> b2,
                 r1 |-> CrackTimes[g][b1], r2 |-> CrackTimes[g][b2]]

(***************************************************************************)
(* The form and the handlers, script.js:36-75 and 413-541                  *)
(***************************************************************************)
\* At most this many draws of a generation started from the form are not 0.
UiDrawBudget == 1
\* the exponent of the default guess rate, 1e10 (script.js:415)
DefaultGuessExp == 10

\* the text of a numeric input: a number, or something Number() makes NaN
Num(k) == [nan |-> FALSE, val |-> k]
NotANumber == [nan |-> TRUE, val |-> 0]
\* Number(input) || d
NumberOr(input, d) == IF input.nan \/ input.val = 0 THEN d ELSE input.val

\* String.prototype.trim
RECURSIVE TrimLeft(_)
TrimLeft(s) == IF s # <<>> /\ IsSpace(Head(s)) THEN TrimLeft(Tail(s)) ELSE s
RECURSIVE TrimRight(_)
TrimRight(s) ==
    IF s # <<>> /\ IsSpace(s[Len(s)]) THEN TrimRight(SubSeq(s, 1, Len(s) - 1)) ELSE s
Trim(s) == TrimRight(TrimLeft(s))

\* script.js:413-440; guessRate is the exponent of the rate
getOptionsFromUI(f) ==
    IF f.mode = "character"
    THEN [mode |-> f.mode,
          length |-> NumberOr(f.charLength, 16),
          pool |-> [lower |-> f.includeLower, upper |-> f.includeUpper,
                    digits |-> f.includeDigits, symbols |-> f.includeSymbols],
          guessRate |-> IF f.guessRate.nan THEN DefaultGuessExp ELSE f.guessRate.val]
    ELSE [mode |-> f.mode,
          numWords |-> Min(8, Max(2, NumberOr(f.numWords, 4))),
          separator |-> f.separator,
          personal |-> Trim(f.personalInput),
          enableCap |-> f.enableCap,
          enableLeet |-> f.enableLeet,
          enableInsertExtras |-> f.enableInsertExtras,
          guessRate |-> IF f.guessRate.nan THEN DefaultGuessExp ELSE f.guessRate.val]

\* what a text node shows: the bits to two decimals (in hundredths), the label
Shown(bits, time) ==
    Some([bits |-> IF bits.inf THEN 0 ELSE ToFixed2(BitsMicro(bits)),
          inf |-> bits.inf, crack |-> time.label])

\* script.js:451-471: the estimated bits of a passphrase
PassphraseEstimateBits(opts, W) ==
    LET baseBits == LogTimes(opts.numWords, Log2(W))
        cap == IF opts.enableCap THEN LogTimes(5 * opts.numWords, Log2(2)) ELSE LogZero
        leet == IF opts.enableLeet
                THEN LogTimes(opts.numWords * 3, LogSub(Log2(3), Log2(2))) ELSE LogZero
        k == Min(3, Max(1, CeilDiv(opts.numWords, 2)))
        ins == IF opts.enableInsertExtras
               THEN LogAdd(LogTimes(k, Log2(10 + Len(SYMBOLS))),
                           log2_nCr(opts.numWords * 5 + k, k))
               ELSE LogZero
    IN  LogAdd(baseBits, LogAdd(LogAdd(cap, leet), ins))

\* what a fetch can end with: a rejection, a response that is not ok, or an
\* ok response whose body does not parse, is no array, or is an array
Response(fetched, ok, parses, isArray, items) ==
    [fetched |-> fetched, ok |-> ok, parses |-> parses, isArray |-> isArray,
     items |-> items]
NoResponse == Response(FALSE, FALSE, FALSE, FALSE, <<>>)
Bodies == {Response(TRUE, TRUE, FALSE, FALSE, <<>>),
           Response(TRUE, TRUE, TRUE, FALSE, <<>>),
           Response(TRUE, TRUE, TRUE, TRUE, <<>>),
           Response(TRUE, TRUE, TRUE, TRUE, SubSeq(FETCHED_WORDLIST, 1, 9)),
           Response(TRUE, TRUE, TRUE, TRUE, FETCHED_WORDLIST)}
Responses == {NoResponse, Response(TRUE, FALSE, FALSE, FALSE, <<>>)} \cup Bodies

\* the handler that ran last: its name, the mode it worked in, whether it
\* ended by an exception, whether it read WORDLIST while that was null,
\* for the completion of loadWordlist what the fetch had delivered, whether
\* secureRandomInt threw for its argument, and the arguments it was called with
EventOf(handler, opts, threw, nullRead, resp) ==
    [handler |-> handler, mode |-> opts.mode, threw |-> threw, nullRead |-> nullRead,
     resp |-> resp, invalidArgument |-> FALSE, ranges |-> {}]
Event(handler, opts, threw, nullRead) == EventOf(handler, opts, threw, nullRead, NoResponse)
NoOpts == [mode |-> "none"]

\* script.js:442-476 run with the word list wl; a null word list is read at
\* line 452 in passphrase mode, which throws before anything is shown
preGenerationEstimate(handler, wl, resp) ==
    LET opts == getOptionsFromUI(form)
    IN  IF opts.mode = "character"
        THEN LET poolSize == charPoolSize(opts.pool)
                 bits == bitsForCharacterMode(opts.length, poolSize)
             IN  /\ preBits' = Shown(bits, formatCrackTimeFromBits(bits, opts.guessRate))
                 /\ event' = EventOf(handler, opts, FALSE, FALSE, resp)
        ELSE IF wl.null
        THEN /\ preBits' = preBits
             /\ event' = EventOf(handler, opts, TRUE, TRUE, resp)
        ELSE LET bits == PassphraseEstimateBits(opts, Len(wl.val))
             IN  /\ preBits' = Shown(bits, formatCrackTimeFromBits(bits, opts.guessRate))
                 /\ event' = EventOf(handler, opts, FALSE, FALSE, resp)

\* script.js:39-68: the word list loadWordlist ends with, given what the
\* fetch and the reading of the body delivered
WordlistAfterAnyArray(resp) ==
    IF resp.fetched /\ resp.ok /\ resp.parses /\ resp.isArray
    THEN Some(resp.items) ELSE Some(FALLBACK_WORDLIST)
WordlistAfter(resp) ==
    IF resp.fetched /\ resp.ok /\ resp.parses /\ resp.isArray /\ Len(resp.items) >= 10
    THEN Some(resp.items) ELSE Some(FALLBACK_WORDLIST)


\* the forms of the model
Form(m, p, t, lower, other) ==
    [mode |-> m, numWords |-> Num(2), separator |-> <<"-">>, personalInput |-> p,
     enableCap |-> t, enableLeet |-> t, enableInsertExtras |-> t,
     charLength |-> Num(2), includeLower |-> lower, includeUpper |-> FALSE,
     includeDigits |-> other, includeSymbols |-> other, guessRate |-> NotANumber]
\* a form with its two numeric inputs given
FormWith(m, nw, cl, p, t, lower, other) ==
    [Form(m, p, t, lower, other) EXCEPT !.numWords = nw, !.charLength = cl]
\* the forms of SpecConfig: numeric inputs that are no number, zero, negative,
\* below and above the clamp; hints of no, one and several characters; the
\* transforms off, and on for the shortest passphrases; the empty pool and
\* two others
ConfigForms ==
    {FormWith("passphrase", nw, Num(2), p, FALSE, TRUE, TRUE)
       : nw \in {NotANumber, Num(0), Num(0 - 3), Num(1), Num(9)},
         p \in {<<>>, <<"J">>, <<" ", "J", "o", " ", "e">>}}
    \cup
    {FormWith("passphrase", nw, Num(2), p, TRUE, TRUE, TRUE)
       : nw \in {Num(0 - 3), Num(1)}, p \in {<<>>, <<" ", "J", "o", " ", "e">>}}
    \cup
    {FormWith("character", Num(2), cl, <<>>, FALSE, pl[1], pl[2])
       : cl \in {NotANumber, Num(0), Num(0 - 1), Num(3)},
         pl \in {<<FALSE, FALSE>>, <<TRUE, FALSE>>, <<FALSE, TRUE>>}}
\* what the fetch delivers in SpecConfig: nothing, or a list that is accepted
ConfigResponses == {NoResponse, Response(TRUE, TRUE, TRUE, TRUE, FETCHED_WORDLIST)}

Forms ==
    {Form("passphrase", <<>>, FALSE, TRUE, TRUE),
     Form("passphrase", <<" ", "J", "o", " ", "e">>, TRUE, TRUE, TRUE),
     Form("character", <<>>, FALSE, FALSE, FALSE),
     Form("character", <<>>, FALSE, TRUE, FALSE),
     Form("character", <<>>, FALSE, FALSE, TRUE)}

\* script.js:72 and 587-589: the script runs: loadWordlist starts its fetch,
\* the listeners are set, and init runs preGenerationEstimate at once
ScriptStart ==
    /\ loadPc = "unstarted"
    /\ loadPc' = "fetching"
    /\ preGenerationEstimate("init", WORDLIST, NoResponse)
    /\ UNCHANGED <<WORDLIST, respInFlight, form, passwordOutput, postBits, regenDisabled, lastGenerated>>

\* script.js:72-75: loadWordlist has set the list; the callback estimates
\* (init is not in scope there: it names a function expression)
LoadCompletes(resp) ==
    /\ WORDLIST' = WordlistAfter(resp)
    /\ loadPc' = "done"
    /\ respInFlight' = NoResponse
    /\ preGenerationEstimate("loaded", WordlistAfter(resp), resp)
    /\ UNCHANGED <<form, passwordOutput, postBits, regenDisabled,
                   lastGenerated>>

\* script.js:40-51: the fetch settles; an ok response goes on to read its body
FetchSettles(resp) ==
    /\ loadPc = "fetching"
    /\ IF resp.fetched /\ resp.ok
       THEN /\ loadPc' = "parsing"
            /\ respInFlight' = resp
            /\ UNCHANGED <<WORDLIST, form, preBits, passwordOutput, postBits,
                           regenDisabled, lastGenerated, event>>
       ELSE LoadCompletes(resp)

\* script.js:42-48: the body is read
BodyRead ==
    /\ loadPc = "parsing"
    /\ LoadCompletes(respInFlight)

\* the user changes the form
UserEdits(f) ==
    /\ loadPc # "unstarted"
    /\ f # form
    /\ form' = f
    /\ event' = Event("edit", f, FALSE, FALSE)
    /\ UNCHANGED <<WORDLIST, loadPc, respInFlight, preBits, passwordOutput, postBits,
                   regenDisabled, lastGenerated>>

\* script.js:521
EstimateClick ==
    /\ loadPc # "unstarted"
    /\ preGenerationEstimate("estimate", WORDLIST, NoResponse)
    /\ UNCHANGED <<WORDLIST, loadPc, respInFlight, form, passwordOutput, postBits,
                   regenDisabled, lastGenerated>>

\* script.js:480-501; a result without bits throws at line 490, after the
\* output field and the buttons are set
postGenerationDisplay(handler, result, opts, draws) ==
    /\ passwordOutput' = result.password
    /\ regenDisabled' = FALSE
    /\ IF "bits" \in DOMAIN result
       THEN /\ postBits' = Shown(result.bits,
                                 formatCrackTimeFromBits(result.bits, opts.guessRate))
            /\ lastGenerated' = Some([result |-> result, opts |-> opts])
            /\ event' = [Event(handler, opts, FALSE, FALSE) EXCEPT !.ranges = Ranges(draws)]
       ELSE /\ UNCHANGED <<postBits, lastGenerated>>
            /\ event' = [Event(handler, opts, TRUE, FALSE) EXCEPT !.ranges = Ranges(draws)]

\* script.js:506-507, 516-517: the result is shown, unless the generator ended
\* by the exception of secureRandomInt, which ends the handler
ShowOrThrow(handler, o, opts) ==
    IF Threw(o.draws)
    THEN /\ event' = [Event(handler, opts, TRUE, FALSE)
                        EXCEPT !.invalidArgument = TRUE, !.ranges = Ranges(o.draws)]
         /\ UNCHANGED <<passwordOutput, postBits, regenDisabled, lastGenerated>>
    ELSE postGenerationDisplay(handler, o.res, opts, o.draws)

\* script.js:505-518 and 527-540: generate with opts and show the result;
\* generatePassphrase reads WORDLIST.length at line 360
GenerateAndDisplay(handler, opts) ==
    IF opts.mode = "character"
    THEN \E o \in generateCharacterPassword(opts.length, opts.pool, UiDrawBudget) :
           ShowOrThrow(handler, o, opts)
    ELSE IF WORDLIST.null
    THEN /\ event' = Event(handler, opts, TRUE, TRUE)
         /\ UNCHANGED <<passwordOutput, postBits, regenDisabled,
                        lastGenerated>>
    ELSE \E o \in generatePassphrase(
                    [numWords |-> opts.numWords, separator |-> opts.separator,
                     personal |-> opts.personal, enableCap |-> opts.enableCap,
                     enableLeet |-> opts.enableLeet,
                     enableInsertExtras |-> opts.enableInsertExtras],
                    WORDLIST.val, UiDrawBudget) :
           ShowOrThrow(handler, o, opts)

\* script.js:503-519
GenerateClick ==
    /\ loadPc # "unstarted"
    /\ GenerateAndDisplay("generate", getOptionsFromUI(form))
    /\ UNCHANGED <<WORDLIST, loadPc, respInFlight, form, preBits>>

\* script.js:523-541; a disabled button takes no click
RegenClick ==
    /\ loadPc # "unstarted"
    /\ ~regenDisabled
    /\ IF lastGenerated.null
       THEN /\ event' = Event("regenerate", NoOpts, FALSE, FALSE)
            /\ UNCHANGED <<passwordOutput, postBits, regenDisabled,
                           lastGenerated>>
       ELSE GenerateAndDisplay("regenerate", lastGenerated.val.opts)
    /\ UNCHANGED <<WORDLIST, loadPc, respInFlight, form, preBits>>

(***************************************************************************)
(* Properties                                                              *)
(***************************************************************************)
\* C2 (as the code has it): secureRandomInt(n), n >= 1, returns r mod n of the
\* accepted raw value r, which lies in 0..n-1; a raw value is accepted exactly
\* when it is below maxUint - (maxUint mod n), where maxUint is the largest
\* value of the source, and is drawn again otherwise; every result in 0..n-1
\* is produced by the same number of accepted raw values.
C2_SamplerUnbiased ==
    (smp.pc \in {"loop", "returned"} /\ smp.n >= 1) =>
        /\ smp.drawn => ((smp.pc = "returned") <=> (smp.r < MaxUint - (MaxUint % smp.n)))
        /\ smp.pc = "returned" => (smp.result \in 0..(smp.n - 1) /\ smp.result = smp.r % smp.n)
        /\ \A v \in 0..(smp.n - 1) :
             Cardinality({r \in 0..MaxUint : Accepts(smp.n, r) /\ r % smp.n = v})
               = Cardinality({r \in 0..MaxUint : Accepts(smp.n, r) /\ r % smp.n = 0})

\* C2 witness: a raw value at or above the threshold was drawn for a range
\* that does not divide the number of source values, and the loop goes on.
C2_Witness ==
    /\ smp.pc = "loop" /\ smp.drawn /\ smp.n = 3
    /\ smp.r >= MaxUint - (MaxUint % smp.n)

\* C2 as stated: a raw value is accepted exactly when it is below
\* rangeSize - (rangeSize mod n), rangeSize being the number of source values.
C2_AsStated ==
    (smp.pc \in {"loop", "returned"} /\ smp.n >= 1 /\ smp.drawn) =>
        ((smp.pc = "returned") <=> (smp.r < RangeSize - (RangeSize % smp.n)))

\* C7: for a length >= 1 and a non-empty pool, generateCharacterPassword
\* returns exactly `length` characters, one secureChoice draw over the whole
\* alphabet for each, every character from an enabled subset, and records a
\* pool size that is the sum of the sizes of the enabled subsets (26, 26, 10,
\* 27), which is what charPoolSize computes for the same flags.
C7_CharacterPassword ==
    (gen.pc = "char" /\ gen.length >= 1 /\ "bits" \in DOMAIN gen.out.res) =>
        LET cfg == gen.poolCfg
            pwd == gen.out.res.password
            size == (IF cfg.lower THEN 26 ELSE 0) + (IF cfg.upper THEN 26 ELSE 0)
                    + (IF cfg.digits THEN 10 ELSE 0) + (IF cfg.symbols THEN 27 ELSE 0)
            enabled == (IF cfg.lower THEN Range(LowerChars) ELSE {})
                       \cup (IF cfg.upper THEN Range(UpperChars) ELSE {})
                       \cup (IF cfg.digits THEN Range(DigitChars) ELSE {})
                       \cup (IF cfg.symbols THEN Range(SYMBOLS) ELSE {})
        IN  /\ Len(pwd) = gen.length
            /\ Len(gen.out.draws) = gen.length
            /\ \A i \in 1..gen.length :
                 /\ gen.out.draws[i].n = size
                 /\ gen.out.draws[i].v \in 0..(size - 1)
                 /\ pwd[i] \in enabled
            /\ gen.out.res.transforms.poolSize = size
            /\ charPoolSize(cfg) = size
            /\ Cardinality(enabled) = size

\* C7 witness: a password of the greatest length of the model over uppercase
\* letters and symbols whose last character is not the alphabet's first.
C7_Witness ==
    /\ gen.pc = "char" /\ gen.length = MaxCharLength
    /\ gen.poolCfg = [lower |-> FALSE, upper |-> TRUE, digits |-> FALSE, symbols |-> TRUE]
    /\ gen.out.res.password[MaxCharLength] # "A"

\* the draws of a log that are of the kind `what`
RECURSIVE DrawsOfKind(_, _)
DrawsOfKind(draws, what) ==
    IF draws = <<>> THEN <<>>
    ELSE (IF Head(draws).what = what THEN <<Head(draws)>> ELSE <<>>)
         \o DrawsOfKind(Tail(draws), what)

\* C8: insertExtras on a text of baseLen characters inserts k characters with
\* 1 <= k <= min(4, max(1, ceil(baseLen / 6))); the i-th insertion, i = 0..k-1,
\* draws its position from baseLen + i + 1 slots; the result has baseLen + k
\* characters; the returned record holds k, the size of the set the values
\* come from (10, 27 or 37) and baseLen, the length of the text that came in.
C8_InsertExtras ==
    /\ (gen.pc = "pass" /\ gen.opts.enableInsertExtras) =>
        LET st == gen.out.stages[Len(gen.out.stages)]
            tr == gen.out.res.transforms
            k == tr.insertions.val.count
            pos == DrawsOfKind(gen.out.draws, "pos")
        IN  /\ st.stage = "insert"
            /\ 1 <= k /\ k <= Min(4, Max(1, CeilDiv(Len(st.in), 6)))
            /\ Len(pos) = k
            /\ \A i \in 0..(k - 1) : pos[i + 1].n = Len(st.in) + i + 1
            /\ Len(st.out) = Len(st.in) + k
            /\ tr.baseLen = Len(st.in)
            /\ tr.insertions.val.choiceSize = 37
    /\ gen.pc = "insert" =>
        LET baseLen == Len(gen.text)
            k == gen.out.count
            pos == DrawsOfKind(gen.out.draws, "pos")
        IN  /\ 1 <= k /\ k <= Min(4, Max(1, CeilDiv(baseLen, 6)))
            /\ Len(pos) = k
            /\ \A i \in 0..(k - 1) : pos[i + 1].n = baseLen + i + 1
            /\ Len(DrawsOfKind(gen.out.draws, "value")) = k
            /\ Len(gen.out.text) = baseLen + k
            /\ gen.out.baseLen = baseLen
            /\ gen.out.choiceSize =
                 (IF gen.opts.symbols /\ gen.opts.digits THEN 37
                  ELSE IF gen.opts.symbols THEN 27 ELSE 10)

\* C8 witness: four characters were inserted into a text of 19 characters,
\* the last of them at the very end.
C8_Witness ==
    /\ gen.pc = "insert" /\ Len(gen.text) = 19 /\ gen.out.count = 4
    /\ LET pos == DrawsOfKind(gen.out.draws, "pos") IN pos[4].v = 22

\* the names of the stages of a log, and the stage each draw was made in
StageNames(stages) == [i \in DOMAIN stages |-> stages[i].stage]
StageRank(name) ==
    CASE name = "select" -> 1 [] name = "cap" -> 2 [] name = "leet" -> 3
      [] name = "insert" -> 4

\* C6: a passphrase generation runs select words, capitalise, leet, insert
\* extras in this order, every enabled stage exactly once on the output of
\* the stage before it, and a disabled stage draws nothing; the draws come
\* in the order of the stages; and the options, the word list and the
\* results of the draws determine the secret and its record.
C6_Pipeline ==
    /\ gen.pc = "pass" =>
        LET stages == gen.out.stages
            draws == gen.out.draws
        IN  /\ StageNames(stages) =
                   <<"select">>
                   \o (IF gen.opts.enableCap THEN <<"cap">> ELSE <<>>)
                   \o (IF gen.opts.enableLeet THEN <<"leet">> ELSE <<>>)
                   \o (IF gen.opts.enableInsertExtras THEN <<"insert">> ELSE <<>>)
            /\ stages[1].in = <<>>
            /\ \A i \in 2..Len(stages) : stages[i].in = stages[i - 1].out
            /\ stages[Len(stages)].out = gen.out.res.password
            /\ \A i \in DOMAIN draws :
                 /\ draws[i].stage = "cap" => gen.opts.enableCap
                 /\ draws[i].stage = "leet" => gen.opts.enableLeet
                 /\ draws[i].stage = "insert" => gen.opts.enableInsertExtras
                 /\ i > 1 => StageRank(draws[i - 1].stage) <= StageRank(draws[i].stage)
            /\ gen.out.res.transforms.capitalisation = gen.opts.enableCap
            /\ gen.out.res.transforms.leet = gen.opts.enableLeet
            /\ gen.out.res.transforms.insertions.null = ~gen.opts.enableInsertExtras
    /\ gen.pc = "all" => gen.outcomes = gen.drawSeqs

\* C6 witness: capitalisation is off, leet and insertion are on, and both
\* of them made a draw that changed the text they received.
C6_Witness ==
    /\ gen.pc = "pass"
    /\ ~gen.opts.enableCap /\ gen.opts.enableLeet /\ gen.opts.enableInsertExtras
    /\ Len(gen.out.stages) = 3
    /\ gen.out.stages[2].in # gen.out.stages[2].out
    /\ \E i \in DOMAIN gen.out.draws : gen.out.draws[i].stage = "leet"

\* the numbers of alternatives of the draws of a log
DrawSizes(draws) == [i \in DOMAIN draws |-> draws[i].n]

\* C1 as stated: the bits stored with a generated passphrase are the sum of
\* log2(alternatives) over every draw made during the generation.
C1_BitsAreDrawsSum ==
    gen.pc = "pass" => gen.out.res.bits = SumLog2(DrawSizes(gen.out.draws))

\* the labels that show a number of minutes, hours, days or years
TimeUnits == {"minutes", "hours", "days", "years"}
UnitRank(unit) ==
    CASE unit = "<1 second" -> 0 [] unit = "minutes" -> 1 [] unit = "hours" -> 2
      [] unit = "days" -> 3 [] unit = "years" -> 4 [] unit = "scientific" -> 5

\* C9 (as the code has it): for a crack time of at least 1 second and below
\* 10^6 years the label is in years exactly when the time is at least 60
\* years, else in days when it is at least a day, else in hours when it is
\* at least an hour, else in minutes; the number shown is the time in that
\* unit, and it is at least 1 whenever the time is at least 60 seconds (a
\* time of 1 to 60 seconds is shown as less than one minute).
C9_CoarsestUnit ==
    (crack.pc = "done" /\ crack.r1.label.unit \in TimeUnits) =>
        LET s == crack.r1.seconds.log10
            years == s - Log10SecsPerYear
            unit == crack.r1.label.unit
            shown == crack.r1.label.log10
        IN  /\ crack.b1 > 0 /\ crack.r1.seconds.kind = "number"
            /\ s >= 0 /\ years < 6 * Micro
            /\ (unit = "years") <=> (years >= Log10Of(60))
            /\ (unit = "days") <=> (years < Log10Of(60) /\ s >= Log10Of(86400))
            /\ (unit = "hours") <=> (s < Log10Of(86400) /\ s >= Log10Of(3600))
            /\ (unit = "minutes") <=> (s < Log10Of(3600))
            /\ shown = (CASE unit = "years" -> years
                          [] unit = "days" -> s - Log10Of(86400)
                          [] unit = "hours" -> s - Log10Of(3600)
                          [] unit = "minutes" -> s - Log10Of(60))
            /\ s >= Log10Of(60) => shown >= 0
            /\ s < Log10Of(60) => (unit = "minutes" /\ shown < 0)

\* C9 witness: a time between one day and ten days, shown in days, and for
\* more bits a time of at least 60 years, shown in years.
C9_Witness ==
    /\ crack.pc = "done"
    /\ crack.r1.label.unit = "days" /\ crack.r1.label.log10 < Micro
    /\ crack.r2.label.unit = "years"

\* C9 as stated: the number shown in minutes, hours, days or years is never
\* below 1.
C9_AsStated ==
    (crack.pc = "done" /\ crack.r1.label.unit \in TimeUnits) =>
        crack.r1.label.log10 >= 0

\* s1 <= s2 for two seconds values that are numbers (0, or 10^log10)
SecondsLeq(s1, s2) ==
    \/ s1.kind = "zero"
    \/ s1.kind = "number" /\ s2.kind = "number" /\ s1.log10 <= s2.log10

\* C10: for one guess rate and b1 <= b2, the seconds of b2 are not smaller
\* than those of b1 wherever both results carry a seconds value; a result
\* without one (10^6 years and more) is never followed by one with one; and
\* the unit of the label of b2 is not before that of b1 in the order
\* '<1 second', minutes, hours, days, years, scientific.
C10_Monotone ==
    crack.pc = "done" =>
        /\ crack.b1 <= crack.b2
        /\ (crack.r1.seconds.kind # "null" /\ crack.r2.seconds.kind # "null")
             => SecondsLeq(crack.r1.seconds, crack.r2.seconds)
        /\ crack.r1.seconds.kind = "null" => crack.r2.seconds.kind = "null"
        /\ UnitRank(crack.r1.label.unit) <= UnitRank(crack.r2.label.unit)
        /\ (crack.r1.label.unit = crack.r2.label.unit
             /\ crack.r1.label.unit \in TimeUnits \cup {"scientific"})
             => crack.r1.label.log10 <= crack.r2.label.log10

\* C10 witness: the two bit counts differ, the smaller gives hours and the
\* larger gives scientific notation.
C10_Witness ==
    /\ crack.pc = "done" /\ crack.b1 < crack.b2
    /\ crack.r1.label.unit = "hours" /\ crack.r2.label.unit = "scientific"

\* C3 as stated: generating in character mode with no subset enabled returns
\* an empty secret with zero bits, and the generate action ends without an
\* exception, the empty secret and the zero bits being shown.
C3_EmptyPoolCompletes ==
    (event.handler = "generate" /\ event.mode = "character"
     /\ ~form.includeLower /\ ~form.includeUpper /\ ~form.includeDigits
     /\ ~form.includeSymbols) =>
        /\ ~event.threw
        /\ passwordOutput = <<>>
        /\ ~postBits.null /\ postBits.val.bits = 0

\* C4 as stated: no handler reads WORDLIST while it is still null, however
\* the start of the script, the load and the user's actions interleave.
C4_NoReadBeforeLoad ==
    ~event.nullRead

\* C5: when loadWordlist completes, WORDLIST is the fetched value only if
\* the fetch gave an ok response whose body parses as an array of at least
\* 10 entries, and is the embedded fallback list in every other case; it is
\* set by the completion and not before, has at least 10 entries from then
\* on, and a passphrase generation after it never fails.
C5_LoadedOrFallback ==
    /\ event.handler = "loaded" =>
        LET r == event.resp
        IN  WORDLIST =
              (IF r.fetched /\ r.ok /\ r.parses /\ r.isArray /\ Len(r.items) >= 10
               THEN Some(r.items) ELSE Some(FALLBACK_WORDLIST))
    /\ loadPc # "done" => WORDLIST.null
    /\ loadPc = "done" => (~WORDLIST.null /\ Len(WORDLIST.val) >= 10)
    /\ Len(FALLBACK_WORDLIST) >= 10
    /\ (loadPc = "done" /\ event.handler \in {"generate", "regenerate"}
        /\ event.mode = "passphrase") =>
           /\ ~event.threw
           /\ ~lastGenerated.null
           /\ lastGenerated.val.result.password = passwordOutput
           /\ Len(lastGenerated.val.result.words) = lastGenerated.val.opts.numWords

\* C5 witness: the fetch delivered an array of nine entries, and the load
\* has completed with the fallback list.
C5_Witness ==
    /\ event.handler = "loaded" /\ loadPc = "done"
    /\ event.resp.isArray /\ Len(event.resp.items) = 9
    /\ WORDLIST = Some(FALLBACK_WORDLIST)

\* C11: once the word list is loaded, whatever the form holds (numeric
\* inputs that are no number, zero, negative or beyond the clamp, any pool
\* flags, hint and toggles), no generate or regenerate action calls
\* secureRandomInt with a range <= 0, secureChoice on an empty array
\* included: every call made has a range >= 1, and no handler ends by the
\* sampler's exception.  A passphrase is generated with 2..8 words and
\* draws from the whole word list; with an empty pool no call is made.
C11_NoInvalidArgument ==
    (loadPc = "done" /\ event.handler \in {"generate", "regenerate"}) =>
        /\ ~event.invalidArgument
        /\ \A n \in event.ranges : n >= 1
        /\ event.mode = "passphrase" =>
             /\ ~event.threw
             /\ lastGenerated.val.opts.numWords \in 2..8
             /\ event.ranges \cap {5, Len(WORDLIST.val)} # {}
        /\ (event.mode = "character" /\ event.threw) => event.ranges = {}
        /\ (event.mode = "character" /\ ~event.threw) =>
             event.ranges \subseteq {charPoolSize(lastGenerated.val.opts.pool)}

\* C11 witness: after the load, a passphrase was regenerated from a form
\* whose number of words is negative and whose transforms are on, with a draw
\* over the whole word list.
C11_Witness ==
    /\ loadPc = "done" /\ event.handler = "regenerate" /\ event.mode = "passphrase"
    /\ form.numWords.val < 0 /\ form.enableInsertExtras
    /\ Len(WORDLIST.val) \in event.ranges

\* C12: a regenerate action that follows a generate action whose generator
\* returned a result works with the options of that generation, the most
\* recent one (the form was not edited in between, so they are the options
\* the form yields), and stores them again with the new result.
C12_RegenerateUsesLastOptions ==
    [][(/\ event.handler = "generate" /\ ~event.nullRead /\ ~event.invalidArgument
        /\ event'.handler = "regenerate")
       => /\ event'.mode = getOptionsFromUI(form).mode
          /\ ~lastGenerated'.null
          /\ lastGenerated'.val.opts = getOptionsFromUI(form)]_vars

\* C14: whenever a generate or regenerate action has updated the output
\* field, the stored last generation holds the shown secret, the shown bits
\* and crack time are those of its result, and after a generate action its
\* options are the ones the form yields.
C14_ShownIsLastGenerated ==
    (/\ event.handler \in {"generate", "regenerate"} /\ event.mode # "none"
     /\ ~event.nullRead /\ ~event.invalidArgument) =>
        /\ ~lastGenerated.null
        /\ lastGenerated.val.result.password = passwordOutput
        /\ postBits = Shown(lastGenerated.val.result.bits,
                            formatCrackTimeFromBits(lastGenerated.val.result.bits,
                                                    lastGenerated.val.opts.guessRate))
        /\ event.mode = lastGenerated.val.opts.mode
        /\ event.handler = "generate" => lastGenerated.val.opts = getOptionsFromUI(form)

\* the rows of Pascal's triangle: row n holds C(n, 0), ..., C(n, n)
RECURSIVE PascalNext(_, _)
PascalNext(prev, j) ==
    IF j > Len(prev) + 1 THEN <<>>
    ELSE <<(IF j = 1 THEN 0 ELSE prev[j - 1]) + (IF j = Len(prev) + 1 THEN 0 ELSE prev[j])>>
         \o PascalNext(prev, j + 1)
RECURSIVE PascalRow(_)
PascalRow(n) == IF n = 0 THEN <<1>> ELSE PascalNext(PascalRow(n - 1), 1)
PascalTriangle == [n \in 0..MaxBinomN |-> PascalRow(n)]
\* the binomial coefficient C(n, k), 0 <= k <= n
Binomial(n, k) == PascalTriangle[n][k + 1]

\* C13: for n >= 0, log2_nCr(n, k) is -Infinity when k < 0 or k > n, and
\* for 0 <= k <= n it is the base-2 logarithm of the binomial coefficient
\* C(n, k): the sum of the logarithms of (n-k'+i)/i, i = 1..k', k' = min(k, n-k),
\* is the logarithm of C(n, k); it is 0 for k = 0 and k = n and the same for
\* k and n-k.
C13_Log2nCr ==
    gen.pc = "nCr" =>
        /\ (gen.k < 0 \/ gen.k > gen.n) => gen.out = NegInfinity
        /\ (0 <= gen.k /\ gen.k <= gen.n) =>
             /\ gen.out = Log2(Binomial(gen.n, gen.k))
             /\ gen.out = log2_nCr(gen.n, gen.n - gen.k)
             /\ (gen.k = 0 \/ gen.k = gen.n) => gen.out = LogZero

\* C13 witness: log2_nCr(10, 7) returned the logarithm of C(10, 7) = 120,
\* summed over min(7, 3) = 3 factors.
C13_Witness ==
    /\ gen.pc = "nCr" /\ gen.n = 10 /\ gen.k = 7
    /\ gen.out = Log2(120) /\ gen.out # LogZero

(***************************************************************************)
(* Specifications                                                          *)
(***************************************************************************)
CrackIdle == [pc |-> "idle"]

\* the page before its script has run; the markup decides the form's values
\* and whether the regenerate button starts disabled
ProgramInit(forms) ==
    /\ WORDLIST = Null
    /\ loadPc = "unstarted"
    /\ respInFlight = NoResponse
    /\ form \in forms
    /\ preBits = Null
    /\ passwordOutput = <<>>
    /\ postBits = Null
    /\ regenDisabled \in BOOLEAN
    /\ lastGenerated = Null
    /\ event = Event("none", NoOpts, FALSE, FALSE)

ProgramIdle == ProgramInit({CHOOSE f \in Forms : TRUE}) /\ regenDisabled

programVars == <<WORDLIST, loadPc, respInFlight, form, preBits, passwordOutput, postBits,
                 regenDisabled, lastGenerated, event>>

\* secureRandomInt alone
InitSampler == ProgramIdle /\ smp = SmpIdle /\ crack = CrackIdle /\ gen = GenIdle
NextSampler ==
    \/ \E n \in -1..MaxSamplerArg :
         SecureRandomIntCall(n) /\ UNCHANGED <<programVars, crack, gen>>
    \/ \E r \in 0..MaxUint :
         SecureRandomIntDraw(r) /\ UNCHANGED <<programVars, crack, gen>>
    \/ SecureRandomIntDone /\ UNCHANGED <<programVars, crack, gen>>
SpecSampler == InitSampler /\ [][NextSampler]_vars

\* the generators alone
InitGen == ProgramIdle /\ smp = SmpIdle /\ crack = CrackIdle /\ gen = GenIdle
NextGen ==
    \/ \E length \in 0..MaxCharLength, poolCfg \in PoolCfgs :
         GenCharacter(length, poolCfg) /\ UNCHANGED <<programVars, smp, crack>>
    \/ \E opts \in PassOpts, wl \in WordLists :
         GenPassphrase(opts, wl) /\ UNCHANGED <<programVars, smp, crack>>
    \/ \E opts \in PassOpts, wl \in WordLists :
         GenPassphraseAll(opts, wl) /\ UNCHANGED <<programVars, smp, crack>>
    \/ \E n \in 0..MaxBaseLen, opts \in ExtrasOpts :
         GenInsertExtras(XText(n), opts) /\ UNCHANGED <<programVars, smp, crack>>
SpecGen == InitGen /\ [][NextGen]_vars

\* log2_nCr alone, on every pair of arguments of BinomInputs
InitBinom == ProgramIdle /\ smp = SmpIdle /\ crack = CrackIdle /\ gen \in BinomInputs
NextBinom == GenLog2nCr /\ UNCHANGED <<programVars, smp, crack>>
SpecBinom == InitBinom /\ [][NextBinom]_vars

\* formatCrackTimeFromBits alone
InitCrack == ProgramIdle /\ smp = SmpIdle /\ crack = CrackIdle /\ gen = GenIdle
NextCrack ==
    \E g \in GuessExps, b1 \in -1..MaxCrackBits, b2 \in -1..MaxCrackBits :
      b1 <= b2 /\ FormatCrackTimes(g, b1, b2) /\ UNCHANGED <<programVars, smp, gen>>
SpecCrack == InitCrack /\ [][NextCrack]_vars

\* the page with any of the forms of ConfigForms, which the user leaves as it
\* is: the script, the loader, generate and regenerate
InitConfig == ProgramInit(ConfigForms) /\ smp = SmpIdle /\ crack = CrackIdle /\ gen = GenIdle
NextConfig ==
    \/ ScriptStart /\ UNCHANGED <<smp, crack, gen>>
    \/ \E resp \in ConfigResponses : FetchSettles(resp) /\ UNCHANGED <<smp, crack, gen>>
    \/ BodyRead /\ UNCHANGED <<smp, crack, gen>>
    \/ GenerateClick /\ UNCHANGED <<smp, crack, gen>>
    \/ RegenClick /\ UNCHANGED <<smp, crack, gen>>
SpecConfig == InitConfig /\ [][NextConfig]_vars

\* the page: the script, the loader and the user's actions
Init == ProgramInit(Forms) /\ smp = SmpIdle /\ crack = CrackIdle /\ gen = GenIdle
Next ==
    \/ ScriptStart /\ UNCHANGED <<smp, crack, gen>>
    \/ \E resp \in Responses : FetchSettles(resp) /\ UNCHANGED <<smp, crack, gen>>
    \/ BodyRead /\ UNCHANGED <<smp, crack, gen>>
    \/ \E f \in Forms : UserEdits(f) /\ UNCHANGED <<smp, crack, gen>>
    \/ EstimateClick /\ UNCHANGED <<smp, crack, gen>>
    \/ GenerateClick /\ UNCHANGED <<smp, crack, gen>>
    \/ RegenClick /\ UNCHANGED <<smp, crack, gen>>
Spec == Init /\ [][Next]_vars

====
